---- MODULE Spec2Model ----
(***************************************************************************)
(* tawny-density: the suburb model, the hole-aware ray-casting containment *)
(* test, the GeoJSON ingestion that builds the suburbs and the assignment  *)
(* of observation points to suburbs (src/tawny_density/suburb.cpp and the  *)
(* main program in src/tawny_density/observations.hpp).                    *)
(*                                                                         *)
(* Coordinates are C++ doubles.  A double is modelled as a binary          *)
(* floating-point number with a MantBits-bit significand, rounded to       *)
(* nearest (ties to even) after every arithmetic operation, exactly as     *)
(* IEEE-754 does with 53 bits.  Values are counted in quanta, the smallest *)
(* step of the format; one coordinate unit is Quanta quanta.               *)
(***************************************************************************)
EXTENDS Integers, Sequences, FiniteSets, TLC

\* ------------------------------------------------------------------------
\* Bounds of the model
\* ------------------------------------------------------------------------
MantBits == 5
FracBits == 2
MaxRingLen == 4
MaxRings == 3

Quanta == 2^FracBits

\* ------------------------------------------------------------------------
\* double arithmetic
\* ------------------------------------------------------------------------
Abs(x) == IF x < 0 THEN -x ELSE x

Min(a, b) == IF b < a THEN b ELSE a

Max(a, b) == IF a < b THEN b ELSE a

\* The binary exponent at which a / d has at most MantBits significant bits.
RECURSIVE Expo(_, _, _)
Expo(a, d, e) == IF a < (2^(MantBits + e)) * d THEN e ELSE Expo(a, d, e + 1)

\* a / dd rounded to the nearest integer, ties to the even one (a >= 0, dd > 0).
RoundHalfEven(a, dd) ==
    LET m == a \div dd
        r == a - m * dd
    IN  IF 2 * r > dd \/ (2 * r = dd /\ m % 2 = 1) THEN m + 1 ELSE m

\* The double nearest to the rational n / d (in quanta), d # 0.
Fl(n, d) ==
    LET sg == IF (n < 0) # (d < 0) THEN -1 ELSE 1
        a  == Abs(n)
        b  == Abs(d)
        e  == Expo(a, b, 0)
    IN  sg * RoundHalfEven(a, b * (2^e)) * (2^e)

FAdd(a, b) == Fl(a + b, 1)

FSub(a, b) == Fl(a - b, 1)

FMul(a, b) == Fl(a * b, Quanta)

\* Only ever evaluated with b # 0 (see EdgeCounts).
FDiv(a, b) == Fl(a * Quanta, b)

\* 1e-12, the tolerance added in the bounding-box tests: two quanta.
EPS == 2

\* 1e300, the "no bounds yet" sentinel of ringBounds and loadSuburbsGeoJSON.
Sentinel == 1048576

\* ------------------------------------------------------------------------
\* suburb.hpp: Point, Ring, Polygon, Suburb
\* ------------------------------------------------------------------------
Point(x, y) == [lon |-> x, lat |-> y]

Polygon(rs, a, b, c, d) ==
    [rings |-> rs, minLon |-> a, minLat |-> b, maxLon |-> c, maxLat |-> d]

\* ------------------------------------------------------------------------
\* suburb.cpp: containment
\* ------------------------------------------------------------------------
\* Longitude at which the edge p1-p2 meets the horizontal line through point.
xIntersect(p1, p2, point) ==
    FAdd(FDiv(FMul(FSub(point.lat, p1.lat), FSub(p2.lon, p1.lon)),
              FSub(p2.lat, p1.lat)),
         p1.lon)

\* EdgeCounts with the latitude test closed at both ends: a vertex on the
\* ray is counted for both of its edges.
EdgeCountsClosed(p1, p2, point) ==
    /\ point.lat >= Min(p1.lat, p2.lat)
    /\ point.lat <= Max(p1.lat, p2.lat)
    /\ p1.lat # p2.lat
    /\ point.lon <= Max(p1.lon, p2.lon)
    /\ (p1.lon = p2.lon \/ point.lon <= xIntersect(p1, p2, point))

\* The outer if of pointInRing's loop: inside it xIntersect is computed.
EdgeInRange(p1, p2, point) ==
    /\ point.lat > Min(p1.lat, p2.lat)
    /\ point.lat <= Max(p1.lat, p2.lat)
    /\ point.lon <= Max(p1.lon, p2.lon)

\* EdgeCounts with a horizontal edge counted when the ray runs along it
EdgeCountsHorizontal(p1, p2, point) ==
    IF p1.lat = p2.lat
    THEN point.lat = p1.lat /\ point.lon <= Max(p1.lon, p2.lon)
    ELSE /\ EdgeInRange(p1, p2, point)
         /\ (p1.lon = p2.lon \/ point.lon <= xIntersect(p1, p2, point))

\* The body of pointInRing's loop: does the edge p1-p2 increment count?
EdgeCounts(p1, p2, point) ==
    /\ EdgeInRange(p1, p2, point)
    /\ (p1.lon = p2.lon \/ point.lon <= xIntersect(p1, p2, point))

\* pointInRing over the edges (ring[i], ring[i + 1]) only, without the wrap
pointInRingNoWrap(ring_, point_) ==
    LET n     == Len(ring_)
        count == Cardinality({i \in 1..(n - 1) :
                     EdgeCounts(ring_[i], ring_[i + 1], point_)})
    IN  count % 2 = 1

pointInRing(ring_, point_) ==
    LET n     == Len(ring_)
        count == Cardinality({i \in 1..n :
                     EdgeCounts(ring_[i], ring_[(i % n) + 1], point_)})
    IN  count % 2 = 1

pointInPolygon(poly_, point_) ==
    IF \/ point_.lon < FAdd(poly_.minLon, EPS)
       \/ point_.lon > FAdd(poly_.maxLon, EPS)
       \/ point_.lat < FAdd(poly_.minLat, EPS)
       \/ point_.lat > FAdd(poly_.maxLat, EPS)
    THEN FALSE
    ELSE IF poly_.rings = <<>> THEN FALSE
    ELSE IF ~pointInRing(poly_.rings[1], point_) THEN FALSE
    ELSE ~(\E i \in 2..Len(poly_.rings) : pointInRing(poly_.rings[i], point_))

\* The suburb-level bounding box test, then any polygon.
pointInSuburb(suburb_, point_) ==
    IF \/ point_.lon < FAdd(suburb_.minLon, EPS)
       \/ point_.lon > FAdd(suburb_.maxLon, EPS)
       \/ point_.lat < FAdd(suburb_.minLat, EPS)
       \/ point_.lat > FAdd(suburb_.maxLat, EPS)
    THEN FALSE
    ELSE \E i \in 1..Len(suburb_.polys) : pointInPolygon(suburb_.polys[i], point_)

\* ------------------------------------------------------------------------
\* suburb.cpp: bounding boxes
\* ------------------------------------------------------------------------
Box(a, b, c, d) == [minLon |-> a, minLat |-> b, maxLon |-> c, maxLat |-> d]

\* min of mins, max of maxes
BoxUnion(b1, b2) ==
    Box(Min(b1.minLon, b2.minLon), Min(b1.minLat, b2.minLat),
        Max(b1.maxLon, b2.maxLon), Max(b1.maxLat, b2.maxLat))

\* The box before any point is folded in: min = 1e300, max = -1e300.
EmptyBox == Box(Sentinel, Sentinel, -Sentinel, -Sentinel)

RECURSIVE RingBoundsFrom(_, _, _)
RingBoundsFrom(ring_, i, b) ==
    IF i > Len(ring_) THEN b
    ELSE RingBoundsFrom(ring_, i + 1,
             Box(Min(b.minLon, ring_[i].lon), Min(b.minLat, ring_[i].lat),
                 Max(b.maxLon, ring_[i].lon), Max(b.maxLat, ring_[i].lat)))

\* ringBounds with its four outputs started at 0
ringBoundsFromZero(ring_) == RingBoundsFrom(ring_, 1, Box(0, 0, 0, 0))

ringBounds(ring_) == RingBoundsFrom(ring_, 1, EmptyBox)

\* ------------------------------------------------------------------------
\* suburb.cpp: detectNameField
\* ------------------------------------------------------------------------
candidates ==
    << "NAME", "Name", "name",
       "LOCALITY_NAME", "LOCALITY", "LOC_NAME",
       "vic_loca_2", "vic_loca_1", "vic_loca_",
       "SUBURB_NAME", "SuburbName", "suburb" >>

\* A JSON object iterates its keys in std::map order (byte-wise ascending);
\* these are the property keys of the model in that order.
KeyOrder ==
    << "", "LOCALITY", "LOCALITY_NAME", "LOC_NAME", "NAME", "Name",
       "SUBURB_NAME", "SuburbName", "count", "foo", "name", "suburb",
       "vic_loca_", "vic_loca_1", "vic_loca_2" >>

\* A property value is a JSON string [str |-> s] or a JSON number [num |-> n].
IsString(v) == "str" \in DOMAIN v

HasString(props, k) == k \in DOMAIN props /\ IsString(props[k])

\* The first element of the sequence keys that names a string property.
RECURSIVE FirstStringKey(_, _, _)
FirstStringKey(props, keys, i) ==
    IF i > Len(keys) THEN ""
    ELSE IF HasString(props, keys[i]) THEN keys[i]
    ELSE FirstStringKey(props, keys, i + 1)

\* detectNameField with the fallback tried before the candidates
detectNameFieldFallbackFirst(props) ==
    LET it2 == FirstStringKey(props, KeyOrder, 1)
    IN  IF it2 # "" THEN it2 ELSE FirstStringKey(props, candidates, 1)

detectNameField(props) ==
    LET it1 == FirstStringKey(props, candidates, 1)
    IN  IF it1 # "" THEN it1 ELSE FirstStringKey(props, KeyOrder, 1)

\* ------------------------------------------------------------------------
\* suburb.cpp: loadSuburbsGeoJSON
\* ------------------------------------------------------------------------
\* p.at(0).get<double>(), p.at(1).get<double>() throw on a coordinate array
\* with fewer than two elements.
RingThrows(ringCoords) == \E i \in 1..Len(ringCoords) : Len(ringCoords[i]) < 2

ReadRing(ringCoords) ==
    [i \in 1..Len(ringCoords) |-> Point(ringCoords[i][1], ringCoords[i][2])]

\* the first point appended whether or not the ring is closed
CloseRingAlways(points) ==
    IF points # <<>> THEN Append(points, points[1]) ELSE points

\* ensure closed ring
CloseRing(points) ==
    IF points # <<>> /\ (points[1].lon # points[Len(points)].lon
                          \/ points[1].lat # points[Len(points)].lat)
    THEN Append(points, points[1])
    ELSE points

RECURSIVE PolyBoundsFrom(_, _, _)
PolyBoundsFrom(rings, i, b) ==
    IF i > Len(rings) THEN b
    ELSE PolyBoundsFrom(rings, i + 1, BoxUnion(b, ringBounds(rings[i])))

\* The lambda addPolygon applied to the suburb under construction.  With no
\* ring in coords, poly.rings.front() reads a ring that does not exist
\* (undefined behaviour): the process dies (garbage.crash) or the bounds are
\* whatever the read yields (garbage.box).
addPolygon(acc, coords, garbage) ==
    IF acc.status # "ok" THEN acc
    ELSE IF \E r \in 1..Len(coords) : RingThrows(coords[r])
    THEN [acc EXCEPT !.status = "throw"]
    ELSE LET rings == [r \in 1..Len(coords) |-> CloseRing(ReadRing(coords[r]))]
         IN  IF rings = <<>> /\ garbage.crash
             THEN [acc EXCEPT !.status = "crash"]
             ELSE LET b == IF rings = <<>> THEN garbage.box
                           ELSE PolyBoundsFrom(rings, 2, ringBounds(rings[1]))
                      poly_ == Polygon(rings, b.minLon, b.minLat, b.maxLon, b.maxLat)
                  IN  [acc EXCEPT
                          !.suburb.polys = Append(@, poly_),
                          !.suburb.minLon = Min(@, b.minLon),
                          !.suburb.minLat = Min(@, b.minLat),
                          !.suburb.maxLon = Max(@, b.maxLon),
                          !.suburb.maxLat = Max(@, b.maxLat)]

RECURSIVE AddPolygons(_, _, _, _)
AddPolygons(acc, multi, i, garbage) ==
    IF i > Len(multi) THEN acc
    ELSE AddPolygons(addPolygon(acc, multi[i], garbage), multi, i + 1, garbage)

NewSuburb(name) ==
    [name |-> name, polys |-> <<>>,
     minLon |-> Sentinel, minLat |-> Sentinel,
     maxLon |-> -Sentinel, maxLat |-> -Sentinel]

\* the iteration with a suburb pushed for every feature that has a geometry
LoadFeatureAnyType(acc, feat, garbage) ==
    IF acc.status # "ok" THEN acc
    ELSE IF feat.geometry # "object" THEN acc
    ELSE LET nameField == detectNameField(feat.properties)
             name == IF nameField = "" THEN "UNKNOWN"
                     ELSE feat.properties[nameField].str
             start == [acc EXCEPT !.suburb = NewSuburb(name)]
             built == IF feat.type = "Polygon"
                      THEN addPolygon(start, feat.coordinates, garbage)
                      ELSE IF feat.type = "MultiPolygon"
                      THEN AddPolygons(start, feat.coordinates, 1, garbage)
                      ELSE start
         IN  IF built.status # "ok" THEN built
             ELSE [built EXCEPT
                      !.box = BoxUnion(@, built.suburb),
                      !.suburbs = Append(@, built.suburb)]

\* One iteration of the loop over gj["features"]; acc holds the suburbs
\* loaded so far, the running global box and whether an exception is in
\* flight.
LoadFeature(acc, feat, garbage) ==
    IF acc.status # "ok" THEN acc
    ELSE IF feat.geometry # "object" THEN acc
    ELSE LET nameField == detectNameField(feat.properties)
             name == IF nameField = "" THEN "UNKNOWN"
                     ELSE feat.properties[nameField].str
             start == [acc EXCEPT !.suburb = NewSuburb(name)]
             built == IF feat.type = "Polygon"
                      THEN addPolygon(start, feat.coordinates, garbage)
                      ELSE IF feat.type = "MultiPolygon"
                      THEN AddPolygons(start, feat.coordinates, 1, garbage)
                      ELSE start
         IN  IF feat.type \notin {"Polygon", "MultiPolygon"} THEN acc
             ELSE IF built.status # "ok" THEN built
             ELSE [built EXCEPT
                      !.box = BoxUnion(@, built.suburb),
                      !.suburbs = Append(@, built.suburb)]

RECURSIVE LoadFeatures(_, _, _, _)
LoadFeatures(acc, features, i, garbage) ==
    IF i > Len(features) THEN acc
    ELSE LoadFeatures(LoadFeature(acc, features[i], garbage), features, i + 1, garbage)

\* loadSuburbsGeoJSON without its final check for an empty vector.
loadSuburbsUnchecked(f, garbage) ==
    LET start == [status |-> "ok", suburbs |-> <<>>, box |-> EmptyBox,
                  suburb |-> NewSuburb("")]
        failed == [start EXCEPT !.status = "throw"]
    IN  IF ~f.readable THEN failed
        ELSE IF ~f.json THEN failed
        ELSE IF ~f.hasFeatures THEN failed
        ELSE LoadFeatures(start, f.features, 1, garbage)

\* The outcome of loadSuburbsGeoJSON: status "ok" with the suburbs and the
\* global box, "throw" (runtime_error or a JSON exception) or "crash".
loadSuburbsGeoJSON(f, garbage) ==
    LET start == [status |-> "ok", suburbs |-> <<>>, box |-> EmptyBox,
                  suburb |-> NewSuburb("")]
        failed == [start EXCEPT !.status = "throw"]
    IN  IF ~f.readable THEN failed
        ELSE IF ~f.json THEN failed
        ELSE IF ~f.hasFeatures THEN failed
        ELSE LET done == LoadFeatures(start, f.features, 1, garbage)
             IN  IF done.status = "ok" /\ done.suburbs = <<>> THEN failed
                 ELSE done

\* ------------------------------------------------------------------------
\* Exact plane geometry (integer arithmetic on quanta, no rounding): what a
\* ring and a point are, independently of the ray-casting code.
\* ------------------------------------------------------------------------
Orient(a, b, c) ==
    (b.lon - a.lon) * (c.lat - a.lat) - (b.lat - a.lat) * (c.lon - a.lon)

Sign(x) == IF x > 0 THEN 1 ELSE IF x < 0 THEN -1 ELSE 0

OnSegment(a, b, p) ==
    /\ Orient(a, b, p) = 0
    /\ Min(a.lon, b.lon) <= p.lon /\ p.lon <= Max(a.lon, b.lon)
    /\ Min(a.lat, b.lat) <= p.lat /\ p.lat <= Max(a.lat, b.lat)

SegmentsMeet(a, b, c, d) ==
    \/ /\ Sign(Orient(a, b, c)) # Sign(Orient(a, b, d))
       /\ Sign(Orient(c, d, a)) # Sign(Orient(c, d, b))
    \/ OnSegment(a, b, c) \/ OnSegment(a, b, d)
    \/ OnSegment(c, d, a) \/ OnSegment(c, d, b)

\* A non-self-intersecting ring: distinct vertices, neighbouring edges share
\* their common vertex only, other edges do not meet at all.
IsSimpleRing(r) ==
    LET n == Len(r)
        nxt(i) == (i % n) + 1
    IN  /\ n >= 3
        /\ \A i, j \in 1..n : i # j => r[i] # r[j]
        /\ \A i, j \in 1..n :
              i < j =>
                IF j = i + 1
                THEN ~OnSegment(r[i], r[j], r[nxt(j)]) /\ ~OnSegment(r[j], r[nxt(j)], r[i])
                ELSE IF i = 1 /\ j = n
                THEN ~OnSegment(r[n], r[1], r[2]) /\ ~OnSegment(r[1], r[2], r[n])
                ELSE ~SegmentsMeet(r[i], r[nxt(i)], r[j], r[nxt(j)])

OnBoundary(r, q) ==
    \E i \in 1..Len(r) : OnSegment(r[i], r[(i % Len(r)) + 1], q)

\* Does the vertical ray going up from q cross the edge a-b (exactly)?
CrossesAbove(a, b, q) ==
    /\ (a.lon > q.lon) # (b.lon > q.lon)
    /\ LET d == b.lon - a.lon
           y == a.lat * d + (q.lon - a.lon) * (b.lat - a.lat)
       IN  IF d > 0 THEN y > q.lat * d ELSE y < q.lat * d

\* The interior of a simple ring by the even-odd rule, computed exactly.
InteriorExact(r, q) ==
    Cardinality({i \in 1..Len(r) : CrossesAbove(r[i], r[(i % Len(r)) + 1], q)}) % 2 = 1

IsInteger(v) == v % Quanta = 0

IntegerPoint(p) == IsInteger(p.lon) /\ IsInteger(p.lat)

IntegerRing(r) == \A i \in 1..Len(r) : IntegerPoint(r[i])

\* ------------------------------------------------------------------------
\* State
\* ------------------------------------------------------------------------
VARIABLES
    ring,       \* the Ring handed to pointInRing
    poly,       \* the Polygon handed to pointInPolygon
    point,      \* the query Point
    called,     \* which containment function has returned ("none" before)
    result,     \* what it returned
    pc,         \* where main is: "load", "fetch", "assign", "report", "done", "crashed"
    file,       \* the GeoJSON file at args.geojsonPath
    suburbs,    \* main's vector<Suburb>
    box,        \* main's minLon, minLat, maxLon, maxLat
    obs,        \* main's vector of observation points
    idx,        \* how many elements of obs the assignment loop has processed
    counts,     \* main's unordered_map from suburb name to count
    assigned,   \* main's tally of assigned observations
    topSuburb,  \* main's topSuburb
    topCount,   \* main's topCount
    exitCode,   \* what main returned (-1: it has not returned)
    outCsv,     \* args.outCsv: "none", or how the path given with --out opens
    query,      \* the bounding box main handed to fetchINatPoints
    csv,        \* the counts CSV as written
    scan,       \* the order in which the loop over counts met its entries
    suburb,     \* the Suburb handed to pointInSuburb
    bounds,     \* what ringBounds wrote through its four pointers
    fpc,        \* where fetchINatPoints is: "idle", "loop", "returned", "threw"
    page,       \* fetchINatPoints: page
    total_results, \* fetchINatPoints: total_results
    out,        \* fetchINatPoints: out
    resp,       \* what the last client.get did
    got,        \* what the last httpGet did
    requests,   \* how many times client.get was called
    sleeps      \* how many politeness delays were slept

geomVars == <<ring, poly, point, called, result>>

mainVars ==
    <<pc, file, suburbs, box, obs, idx, counts, assigned, topSuburb, topCount, exitCode,
      outCsv, query, csv, scan>>

harnessVars == <<suburb, bounds>>

fetchVars == <<fpc, page, total_results, out, resp, got, requests, sleeps>>

vars == <<geomVars, mainVars, harnessVars, fetchVars>>

\* ------------------------------------------------------------------------
\* Inputs of the containment functions
\* ------------------------------------------------------------------------
Units(p) == Point(p[1] * Quanta, p[2] * Quanta)

UnitRing(r) == [i \in 1..Len(r) |-> Units(r[i])]

\* The rings of the unit tests (src/unnamed/part_005).
Square10 == UnitRing(<< <<0, 0>>, <<10, 0>>, <<10, 10>>, <<0, 10>> >>)

CShape ==
    UnitRing(<< <<0, 0>>, <<10, 0>>, <<10, 10>>, <<6, 10>>,
                <<6, 4>>, <<4, 4>>, <<4, 10>>, <<0, 10>> >>)

TestRings == {Square10, CShape}

TestQueries == {Units(<<5, 5>>), Units(<<8, 5>>), Units(<<8, 4>>), Units(<<20, 20>>)}

GridCoords == {0, Quanta, 2 * Quanta}

GridPts == {Point(x, y) : x \in GridCoords, y \in GridCoords}

QueryCoords == GridCoords \cup {Quanta \div 2, Quanta - 1}

QueryPts == {Point(x, y) : x \in QueryCoords, y \in QueryCoords} \cup TestQueries

DegCoords == {0, Quanta - 1, 2 * Quanta}

DegPts == {Point(x, y) : x \in DegCoords, y \in DegCoords}

\* Rings with 0, 1 or 2 points.
DegenerateRings ==
    {<<>>} \cup {<<p>> : p \in DegPts} \cup {<<p, q>> : p \in DegPts, q \in DegPts}

NoPolygon == Polygon(<<>>, 0, 0, 0, 0)

\* counts before any insertion
EmptyCounts == [k \in {} |-> 0]

NoFile == [readable |-> FALSE, json |-> FALSE, hasFeatures |-> FALSE, features |-> <<>>]

\* fetchINatPoints has not been called by main
NoQuery == [called |-> FALSE, swlat |-> 0, swlng |-> 0, nelat |-> 0, nelng |-> 0]

\* no CSV file has been written
NoCsv == [written |-> FALSE, rows |-> EmptyCounts]

\* main's locals while the containment functions are exercised on their own
MainNotStarted ==
    /\ outCsv = "none"
    /\ query = NoQuery
    /\ csv = NoCsv
    /\ scan = <<>>
    /\ pc = "idle"
    /\ file = NoFile
    /\ suburbs = <<>>
    /\ box = EmptyBox
    /\ obs = <<>>
    /\ idx = 0
    /\ counts = EmptyCounts
    /\ assigned = 0
    /\ topSuburb = ""
    /\ topCount = 0
    /\ exitCode = -1

NoSuburb == NewSuburb("")

\* no Suburb handed to pointInSuburb, ringBounds not called
HarnessIdle ==
    /\ suburb = NoSuburb
    /\ bounds = EmptyBox

\* the empty string as a response body
EmptyBody ==
    [kind |-> "empty", hasTotal |-> FALSE, totalIsNumber |-> FALSE, total |-> 0,
     hasResults |-> FALSE, results |-> <<>>]

NoResponse == [threw |-> FALSE, status |-> 0, body |-> EmptyBody]

\* fetchINatPoints is not running
FetchNotStarted ==
    /\ fpc = "idle"
    /\ page = 1
    /\ total_results = -1
    /\ out = <<>>
    /\ resp = NoResponse
    /\ got = [threw |-> FALSE, body |-> EmptyBody]
    /\ requests = 0
    /\ sleeps = 0

Origin == Point(0, 0)

\* ------------------------------------------------------------------------
\* pointInRing on rings read point by point
\* ------------------------------------------------------------------------
InitRing ==
    /\ ring \in DegenerateRings \cup TestRings
    /\ poly = NoPolygon
    /\ point = Origin
    /\ called = "none"
    /\ result = FALSE
    /\ MainNotStarted
    /\ HarnessIdle
    /\ FetchNotStarted

\* ring.points.push_back(pt): the next vertex of a raw ring (raw rings name
\* no vertex twice; closing a ring is the loader's business).
PushBack(p) ==
    /\ called = "none"
    /\ Len(ring) < MaxRingLen
    /\ \A i \in 1..Len(ring) : ring[i] \in GridPts /\ ring[i] # p
    /\ ring' = Append(ring, p)
    /\ UNCHANGED <<poly, point, called, result, mainVars, harnessVars, fetchVars>>

CallPointInRing(q) ==
    /\ called = "none"
    /\ point' = q
    /\ result' = pointInRing(ring, q)
    /\ called' = "pointInRing"
    /\ UNCHANGED <<ring, poly, mainVars, harnessVars, fetchVars>>

NextRing ==
    \/ \E p \in GridPts : PushBack(p)
    \/ \E q \in QueryPts : CallPointInRing(q)

SpecRing == InitRing /\ [][NextRing]_vars

\* edge i of the ring: (ring[i], ring[(i + 1) mod n])
EdgeFrom(i) == ring[i]

EdgeTo(i) == ring[(i % Len(ring)) + 1]

Horizontal(i) == EdgeFrom(i).lat = EdgeTo(i).lat

\* C24: an edge whose endpoints have equal latitude never increments the
\* count, wherever the query point is (on the edge included), so that the
\* result is the parity of the other edges alone; and whenever xIntersect is
\* computed its denominator p2.lat - p1.lat is not zero.
C24_HorizontalEdgesSkipped ==
    called = "pointInRing" =>
        /\ \A i \in 1..Len(ring) :
              /\ Horizontal(i) => ~EdgeCounts(EdgeFrom(i), EdgeTo(i), point)
              /\ EdgeInRange(EdgeFrom(i), EdgeTo(i), point)
                    => FSub(EdgeTo(i).lat, EdgeFrom(i).lat) # 0
        /\ result = (Cardinality({i \in 1..Len(ring) :
                         ~Horizontal(i) /\ EdgeCounts(EdgeFrom(i), EdgeTo(i), point)}) % 2 = 1)

\* C24 witness: pointInRing was called with a point on the horizontal top
\* edge of a triangle.
C24_Witness ==
    /\ called = "pointInRing"
    /\ ring = <<Point(0, 0), Point(2 * Quanta, 2 * Quanta), Point(0, 2 * Quanta)>>
    /\ point = Point(Quanta, 2 * Quanta)
    /\ Horizontal(2)
    /\ result = TRUE

\* the ring with its first point appended, as the loader closes it
Closed(ring_) == Append(ring_, ring_[1])

\* C25: for every ring with at least one point and every query point,
\* pointInRing gives the same result on the ring p0..pn-1 and on the ring
\* p0..pn-1,p0: the wrap already joins pn-1 to p0, and the edge from p0 to
\* p0 increments nothing.
C25_ClosureRedundant ==
    (called = "pointInRing" /\ ring # <<>>) =>
        /\ result = pointInRing(Closed(ring), point)
        /\ ~EdgeCounts(ring[1], ring[1], point)

\* C25 witness: the open square of the unit tests and its centre: inside,
\* as with the closed square.
C25_Witness ==
    /\ called = "pointInRing"
    /\ ring = Square10
    /\ point = Units(<<5, 5>>)
    /\ result = TRUE
    /\ pointInRing(Closed(Square10), point) = TRUE

\* C28: for every ring with at least 3 points and every query point on
\* the ring's boundary, on an edge or on a vertex, pointInRing returns true.
C28_BoundaryIsInside ==
    (called = "pointInRing" /\ Len(ring) >= 3 /\ OnBoundary(ring, point))
        => result = TRUE

\* C4: pointInRing returns false for every query point when the ring has 0, 1
\* or 2 points, and pointInPolygon returns false when its outer ring is such
\* a ring.
C4_DegenerateRingIsFalse ==
    /\ (called = "pointInRing" /\ Len(ring) < 3) => result = FALSE
    /\ (called = "pointInPolygon" /\ poly.rings # <<>> /\ Len(poly.rings[1]) < 3)
          => result = FALSE

\* C5 as claimed: on a simple ring with integer vertices, for every query
\* point off the boundary, pointInRing is true exactly in the interior.
C5_EvenOddAnyQuery ==
    (/\ called = "pointInRing"
     /\ IntegerRing(ring)
     /\ IsSimpleRing(ring)
     /\ ~OnBoundary(ring, point))
        => (result = InteriorExact(ring, point))

\* C5 amended: on a simple ring with integer vertices, for every query point
\* with integer coordinates off the boundary, pointInRing is true exactly in
\* the interior (also when the query latitude equals a vertex latitude).
C5_EvenOddIntegerQuery ==
    (/\ called = "pointInRing"
     /\ IntegerRing(ring)
     /\ IsSimpleRing(ring)
     /\ IntegerPoint(point)
     /\ ~OnBoundary(ring, point))
        => (result = InteriorExact(ring, point))

\* C5 witness: the C-shaped ring, a query in its arm at the latitude of the
\* vertices (6,4) and (4,4), found inside.
C5_Witness ==
    /\ called = "pointInRing"
    /\ ring = CShape
    /\ point = Units(<<8, 4>>)
    /\ ~OnBoundary(ring, point)
    /\ result = TRUE

\* ------------------------------------------------------------------------
\* pointInPolygon on polygons with hand-set bounding boxes (as the unit
\* tests build them: rings and cached box are set independently)
\* ------------------------------------------------------------------------
Sq(lo, hi) == UnitRing(<< <<lo, lo>>, <<hi, lo>>, <<hi, hi>>, <<lo, hi>> >>)

\* An outer square, two overlapping squares used as holes, a 2-point ring
\* and a ring without points.
RingCatalogue ==
    {Sq(0, 4), Sq(1, 3), Sq(2, 4), UnitRing(<< <<0, 0>>, <<4, 0>> >>), <<>>}

RECURSIVE SeqsUpTo(_, _)
SeqsUpTo(S, n) ==
    IF n = 0 THEN {<<>>}
    ELSE LET shorter == SeqsUpTo(S, n - 1)
         IN  shorter \cup {Append(q, x) : q \in shorter, x \in S}

BoxMins == {0, 2 * Quanta}

BoxMaxs == {2 * Quanta, 4 * Quanta}

PolygonInputs ==
    {Polygon(rs, a, b, c, d) :
        rs \in SeqsUpTo(RingCatalogue, MaxRings),
        a \in BoxMins, b \in BoxMins, c \in BoxMaxs, d \in BoxMaxs}

\* The polygons of the unit tests: box (0,0)-(10,10), square outer ring,
\* with and without the hole (3,3)-(7,7); the same box around a larger ring.
TestPolygons ==
    {Polygon(<<Square10>>, 0, 0, 10 * Quanta, 10 * Quanta),
     Polygon(<<Square10, Sq(3, 7)>>, 0, 0, 10 * Quanta, 10 * Quanta),
     Polygon(<<Sq(0, 20)>>, 0, 0, 10 * Quanta, 10 * Quanta),
     Polygon(<<>>, 0, 0, 10 * Quanta, 10 * Quanta)}

PolyQueryCoords ==
    {1, 2, Quanta + 2, 2 * Quanta + 2, 2 * Quanta + 3, 3 * Quanta + 2}

PolyQueryPts ==
    {Point(x, y) : x \in PolyQueryCoords, y \in PolyQueryCoords}
        \cup {Units(<<5, 5>>), Units(<<1, 1>>), Units(<<5, 20>>), Units(<<20, 20>>)}

InitPoly ==
    /\ poly \in PolygonInputs \cup TestPolygons
    /\ ring = <<>>
    /\ point = Origin
    /\ called = "none"
    /\ result = FALSE
    /\ MainNotStarted
    /\ HarnessIdle
    /\ FetchNotStarted

CallPointInPolygon(q) ==
    /\ called = "none"
    /\ point' = q
    /\ result' = pointInPolygon(poly, q)
    /\ called' = "pointInPolygon"
    /\ UNCHANGED <<ring, poly, mainVars, harnessVars, fetchVars>>

NextPoly == \E q \in PolyQueryPts : CallPointInPolygon(q)

SpecPoly == InitPoly /\ [][NextPoly]_vars

\* X lies within P's cached box.
InBox(b, x) ==
    /\ b.minLon <= x.lon /\ x.lon <= b.maxLon
    /\ b.minLat <= x.lat /\ x.lat <= b.maxLat

InSomeHole(p, x) == \E i \in 2..Len(p.rings) : pointInRing(p.rings[i], x)

\* C1: if pointInPolygon(P, X) returns true then X lies within P's cached
\* box, whatever the rings and whatever the cached bounds.
C1_TrueOnlyInsideBox ==
    (called = "pointInPolygon" /\ result = TRUE) => InBox(poly, point)

\* C3: for X inside the outer ring and inside the cached box, pointInPolygon
\* is false if X is inside at least one hole and true if it is inside none.
C3_HoleExclusion ==
    (/\ called = "pointInPolygon"
     /\ poly.rings # <<>>
     /\ pointInRing(poly.rings[1], point)
     /\ InBox(poly, point))
        => (result = ~InSomeHole(poly, point))

\* ------------------------------------------------------------------------
\* GeoJSON inputs
\* ------------------------------------------------------------------------
MaxFeatures == 2
MaxObs == 3

\* [lon, lat] as JSON arrays, in quanta
RawSq(lo, hi) ==
    << <<lo * Quanta, lo * Quanta>>, <<hi * Quanta, lo * Quanta>>,
       <<hi * Quanta, hi * Quanta>>, <<lo * Quanta, hi * Quanta>> >>

Str(s) == [str |-> s]

Feature(g, t, c, props) ==
    [geometry |-> g, type |-> t, coordinates |-> c, properties |-> props]

\* The square region (0,0)-(10,10) named Testville.
Testville == Feature("object", "Polygon", <<RawSq(0, 10)>>, [NAME |-> Str("Testville")])

\* A region inside Testville.
Inner == Feature("object", "Polygon", <<RawSq(0, 4)>>, [NAME |-> Str("Inner")])

\* The Testville square with a hole (3,3)-(7,7).
Holed == Feature("object", "Polygon", <<RawSq(0, 10), RawSq(3, 7)>>, [name |-> Str("Holed")])

\* Two squares under the name of another region.
Multi ==
    Feature("object", "MultiPolygon", << <<RawSq(4, 6)>>, <<RawSq(18, 22)>> >>,
            [NAME |-> Str("Inner")])

Station == Feature("object", "Point", <<5 * Quanta, 5 * Quanta>>, [NAME |-> Str("Station")])

NoGeometry == Feature("missing", "", <<>>, [NAME |-> Str("Nowhere")])

NullGeometry == Feature("null", "", <<>>, [NAME |-> Str("Nowhere")])

\* "coordinates": []
Hollow == Feature("object", "Polygon", <<>>, [NAME |-> Str("Hollow")])

\* a position with one number
Broken ==
    Feature("object", "Polygon", << << <<0, 0>>, <<4 * Quanta>> >> >>, [NAME |-> Str("Broken")])

\* A square whose source ring repeats its first position, with a one-point
\* ring and a ring without positions.
Ringed ==
    Feature("object", "Polygon",
            <<Append(RawSq(0, 10), <<0, 0>>), << <<5 * Quanta, 5 * Quanta>> >>, <<>> >>,
            [NAME |-> Str("Ringed")])

FeatureCatalogue ==
    {Testville, Inner, Holed, Multi, Station, NoGeometry, NullGeometry, Hollow, Broken,
     Ringed}

GeoFile(fs) == [readable |-> TRUE, json |-> TRUE, hasFeatures |-> TRUE, features |-> fs]

\* A file that cannot be opened, one that is not JSON, one without a
\* features array, and feature collections.
Files ==
    {NoFile,
     [readable |-> TRUE, json |-> FALSE, hasFeatures |-> FALSE, features |-> <<>>],
     [readable |-> TRUE, json |-> TRUE, hasFeatures |-> FALSE, features |-> <<>>]}
        \cup {GeoFile(fs) : fs \in SeqsUpTo(FeatureCatalogue, MaxFeatures)}

\* The features of the files main is run on.
MainFeatures == {Testville, Inner, Multi, Station, Hollow}

MainFiles == {NoFile} \cup {GeoFile(fs) : fs \in SeqsUpTo(MainFeatures, MaxFeatures)}

\* What reading a ring that does not exist can leave in the bounds.
Garbage ==
    {[crash |-> TRUE, box |-> EmptyBox],
     [crash |-> FALSE, box |-> Box(0, 0, 0, 0)],
     [crash |-> FALSE, box |-> Box(-Sentinel, -Sentinel, Sentinel, Sentinel)]}

ObsPts == {Units(<<5, 5>>), Units(<<20, 20>>), Units(<<1, 1>>)}

\* ------------------------------------------------------------------------
\* observations.hpp: main
\* ------------------------------------------------------------------------
\* main has parsed its arguments: --geojson names one of files, and --out is
\* absent ("none") or names a path that opens or does not open for writing.
MainStartsWith(files, outs) ==
    /\ pc = "load"
    /\ file \in files
    /\ outCsv \in outs
    /\ query = NoQuery
    /\ csv = NoCsv
    /\ scan = <<>>
    /\ suburbs = <<>>
    /\ box = EmptyBox
    /\ obs = <<>>
    /\ idx = 0
    /\ counts = EmptyCounts
    /\ assigned = 0
    /\ topSuburb = ""
    /\ topCount = 0
    /\ exitCode = -1
    /\ ring = <<>>
    /\ poly = NoPolygon
    /\ point = Origin
    /\ called = "none"
    /\ result = FALSE
    /\ HarnessIdle
    /\ FetchNotStarted

\* main run without --out
MainStarts(files) == MainStartsWith(files, {"none"})

Init == MainStarts(MainFiles)

\* 1) Load suburbs; an exception reaches main's catch, which returns 2.
Load(garbage) ==
    /\ pc = "load"
    /\ LET r == loadSuburbsGeoJSON(file, garbage)
       IN  /\ pc' = IF r.status = "ok" THEN "fetch"
                    ELSE IF r.status = "throw" THEN "done" ELSE "crashed"
           /\ suburbs' = IF r.status = "ok" THEN r.suburbs ELSE suburbs
           /\ box' = IF r.status = "ok" THEN r.box ELSE box
           /\ exitCode' = IF r.status = "throw" THEN 2 ELSE exitCode
    /\ UNCHANGED <<file, obs, idx, counts, assigned, topSuburb, topCount, outCsv, query, csv,
                   scan, geomVars, harnessVars, fetchVars>>

\* fetchINatPoints called with main's box as (nelat, nelng, swlat, swlng)
FetchCallSwapped ==
    /\ pc = "fetch"
    /\ query' = [called |-> TRUE, swlat |-> box.maxLat, swlng |-> box.maxLon,
                 nelat |-> box.minLat, nelng |-> box.minLon]
    /\ pc' = "fetching"
    /\ UNCHANGED <<file, suburbs, box, obs, idx, counts, assigned, topSuburb, topCount,
                   exitCode, outCsv, csv, scan, geomVars, harnessVars, fetchVars>>

\* 2) main calls fetchINatPoints with swlat = minLat, swlng = minLon,
\* nelat = maxLat, nelng = maxLon.
FetchCall ==
    /\ pc = "fetch"
    /\ query' = [called |-> TRUE, swlat |-> box.minLat, swlng |-> box.minLon,
                 nelat |-> box.maxLat, nelng |-> box.maxLon]
    /\ pc' = "fetching"
    /\ UNCHANGED <<file, suburbs, box, obs, idx, counts, assigned, topSuburb, topCount,
                   exitCode, outCsv, csv, scan, geomVars, harnessVars, fetchVars>>

\* 2) fetchINatPoints returns the points it collected.
FetchReturns(points) ==
    /\ pc = "fetching"
    /\ obs' = points
    /\ pc' = "assign"
    /\ UNCHANGED <<file, suburbs, box, idx, counts, assigned, topSuburb, topCount,
                   exitCode, outCsv, query, csv, scan, geomVars, harnessVars, fetchVars>>

\* 2) fetchINatPoints throws ("Couldn't fetch observations", a JSON exception).
FetchThrows ==
    /\ pc = "fetching"
    /\ pc' = "done"
    /\ exitCode' = 2
    /\ UNCHANGED <<file, suburbs, box, obs, idx, counts, assigned, topSuburb, topCount,
                   outCsv, query, csv, scan, geomVars, harnessVars, fetchVars>>

\* The suburb the inner loop breaks at: the first one pointInSuburb accepts
\* (0: the loop runs off the end).
LastMatch(suburbs_, point_) ==
    LET hits == {i \in 1..Len(suburbs_) : pointInSuburb(suburbs_[i], point_)}
    IN  IF hits = {} THEN 0 ELSE CHOOSE i \in hits : \A j \in hits : j <= i

FirstMatch(suburbs_, point_) ==
    LET hits == {i \in 1..Len(suburbs_) : pointInSuburb(suburbs_[i], point_)}
    IN  IF hits = {} THEN 0 ELSE CHOOSE i \in hits : \A j \in hits : i <= j

\* counts[name] += 1 with the key inserted at 0 when absent
BumpTwice(c, name) ==
    [k \in DOMAIN c \cup {name} |-> IF k = name
                                    THEN (IF k \in DOMAIN c THEN c[k] ELSE 0) + 2
                                    ELSE c[k]]

BumpLeavesZero(c, name) ==
    [k \in DOMAIN c \cup {name} |-> IF k \in DOMAIN c
                                    THEN (IF k = name THEN c[k] + 1 ELSE c[k])
                                    ELSE 0]

\* a key that is present is left as it is
BumpOnce(c, name) ==
    [k \in DOMAIN c \cup {name} |-> IF k \in DOMAIN c THEN c[k] ELSE 1]

Bump(c, name) ==
    [k \in DOMAIN c \cup {name} |-> IF k = name
                                    THEN (IF k \in DOMAIN c THEN c[k] ELSE 0) + 1
                                    ELSE c[k]]

\* 3) One iteration of the loop over obs.
Assign ==
    /\ pc = "assign"
    /\ idx < Len(obs)
    /\ LET op == obs[idx + 1]
           s == FirstMatch(suburbs, Point(op.lon, op.lat))
       IN  /\ counts' = IF s = 0 THEN counts ELSE Bump(counts, suburbs[s].name)
           /\ assigned' = IF s = 0 THEN assigned ELSE assigned + 1
    /\ idx' = idx + 1
    /\ UNCHANGED <<pc, file, suburbs, box, obs, topSuburb, topCount, exitCode, outCsv, query,
                   csv, scan, geomVars, harnessVars, fetchVars>>

\* The orders in which an unordered_map with these keys may be iterated.
Orders(keys) ==
    {o \in [1..Cardinality(keys) -> keys] : \A i, j \in DOMAIN o : o[i] = o[j] => i = j}

\* The loop over counts, from entry i of the iteration order on.
RECURSIVE TopMin(_, _, _, _)
TopMin(c, order, i, top) ==
    IF i > Len(order) THEN top
    ELSE TopMin(c, order, i + 1,
                IF top.count = 0 \/ c[order[i]] < top.count
                THEN [name |-> order[i], count |-> c[order[i]]]
                ELSE top)

\* the scan with an entry equal to the current top taking its place
RECURSIVE TopFromLast(_, _, _, _)
TopFromLast(c, order, i, top) ==
    IF i > Len(order) THEN top
    ELSE TopFromLast(c, order, i + 1,
                     IF c[order[i]] >= top.count
                     THEN [name |-> order[i], count |-> c[order[i]]]
                     ELSE top)

RECURSIVE TopFrom(_, _, _, _)
TopFrom(c, order, i, top) ==
    IF i > Len(order) THEN top
    ELSE TopFrom(c, order, i + 1,
                 IF c[order[i]] > top.count
                 THEN [name |-> order[i], count |-> c[order[i]]]
                 ELSE top)

\* 4) Find the top suburb.
Top(order) ==
    /\ pc = "assign"
    /\ idx = Len(obs)
    /\ LET top == TopFrom(counts, order, 1, [name |-> "", count |-> 0])
       IN  /\ topSuburb' = top.name
           /\ topCount' = top.count
    /\ scan' = order
    /\ pc' = "report"
    /\ UNCHANGED <<file, suburbs, box, obs, idx, counts, assigned, exitCode, outCsv, query,
                   csv, geomVars, harnessVars, fetchVars>>

\* The report is printed; with --out the counts are written as CSV rows
\* (in the map's iteration order, which the rows here do not record), or
\* the file does not open and the exception reaches main's catch; main
\* returns.
Report ==
    /\ pc = "report"
    /\ pc' = "done"
    /\ csv' = IF outCsv = "opens" THEN [written |-> TRUE, rows |-> counts] ELSE csv
    /\ exitCode' = IF outCsv = "fails" THEN 2 ELSE 0
    /\ UNCHANGED <<file, suburbs, box, obs, idx, counts, assigned, topSuburb, topCount,
                   outCsv, query, scan, geomVars, harnessVars, fetchVars>>

Next ==
    \/ \E g \in Garbage : Load(g)
    \/ FetchCall
    \/ \E o \in SeqsUpTo(ObsPts, MaxObs) : FetchReturns(o)
    \/ FetchThrows
    \/ Assign
    \/ \E o \in Orders(DOMAIN counts) : Top(o)
    \/ Report

Spec == Init /\ [][Next]_vars

\* ------------------------------------------------------------------------
\* pointInPolygon on the polygons the loader builds
\* ------------------------------------------------------------------------
\* for (const auto& poly : suburb.polys): one polygon of a loaded suburb
SelectPolygon(i, j) ==
    /\ pc = "fetch"
    /\ called = "none"
    /\ poly = NoPolygon
    /\ i \in 1..Len(suburbs)
    /\ j \in 1..Len(suburbs[i].polys)
    /\ poly' = suburbs[i].polys[j]
    /\ UNCHANGED <<ring, point, called, result, mainVars, harnessVars, fetchVars>>

IngestQueryCoords == {1, 2, 5 * Quanta, 10 * Quanta, 10 * Quanta + 1, 20 * Quanta}

IngestQueryPts == {Point(x, y) : x \in IngestQueryCoords, y \in IngestQueryCoords}

NextIngest ==
    \/ \E g \in Garbage : Load(g)
    \/ \E i \in 1..MaxFeatures, j \in 1..2 : SelectPolygon(i, j)
    \/ \E q \in IngestQueryPts : CallPointInPolygon(q)

InitIngest == MainStarts(Files)

SpecIngest == InitIngest /\ [][NextIngest]_vars

\* The ring-based test alone.
RingTest(p, x) == p.rings # <<>> /\ pointInRing(p.rings[1], x) /\ ~InSomeHole(p, x)

\* C2: for every polygon the loader built from at least one ring and every
\* point X, pointInPolygon(P, X) equals the ring-based test (X in rings[0]
\* and in no hole); the fast reject never rejects what the rings accept.
C2_FastRejectAgrees ==
    (pc = "fetch" /\ called = "pointInPolygon" /\ poly.rings # <<>>)
        => (result = RingTest(poly, point))

\* ------------------------------------------------------------------------
\* Assignment and top suburb
\* ------------------------------------------------------------------------
Containing(x) == {i \in 1..Len(suburbs) : pointInSuburb(suburbs[i], x)}

Lowest(S) == CHOOSE i \in S : \A j \in S : i <= j

CountOf(c, k) == IF k \in DOMAIN c THEN c[k] ELSE 0

RECURSIVE SumCounts(_)
SumCounts(c) ==
    IF DOMAIN c = {} THEN 0
    ELSE LET k == CHOOSE x \in DOMAIN c : TRUE
         IN  c[k] + SumCounts([x \in DOMAIN c \ {k} |-> c[x]])

\* C6: when an observation point is processed and several suburbs contain
\* it, the count under the name of the containing suburb with the lowest
\* index rises by exactly 1 and the count under every other name is unchanged.
C6_FirstMatchOnly ==
    [][(pc = "assign" /\ idx' = idx + 1 /\ Containing(obs[idx + 1]) # {}) =>
          LET first == suburbs[Lowest(Containing(obs[idx + 1]))].name
          IN  /\ DOMAIN counts' = DOMAIN counts \cup {first}
              /\ counts'[first] = CountOf(counts, first) + 1
              /\ \A k \in DOMAIN counts' \ {first} : counts'[k] = CountOf(counts, k)]_vars

\* C6 witness: Testville was loaded before Inner, both contain the first
\* observation (1,1), and only Testville has been counted.
C6_Witness ==
    /\ pc = "assign"
    /\ idx = 1
    /\ obs[1] = Units(<<1, 1>>)
    /\ Len(suburbs) = 2
    /\ suburbs[1].name = "Testville"
    /\ suburbs[2].name = "Inner"
    /\ Containing(obs[1]) = {1, 2}
    /\ counts = ("Testville" :> 1)

\* C7: processing one observation raises the sum of all counts by 0 or 1;
\* after k processed observations the sum of all counts equals assigned
\* and is at most k.
C7_NeverCountedTwice ==
    /\ [](SumCounts(counts) = assigned /\ assigned <= idx)
    /\ [][SumCounts(counts') - SumCounts(counts) \in {0, 1}]_vars

\* C7 witness: three observations processed, each contained in two or more
\* suburbs, and the counts add up to three.
C7_Witness ==
    /\ pc = "assign"
    /\ idx = 3
    /\ \A i \in 1..3 : Cardinality(Containing(obs[i])) >= 2
    /\ assigned = 3
    /\ SumCounts(counts) = 3

\* the names the first idx observations were assigned to
AssignedNames ==
    LET hits == [i \in 1..idx |-> Containing(obs[i])]
    IN  {suburbs[Lowest(hits[i])].name : i \in {j \in 1..idx : hits[j] # {}}}

\* C8: a name is a key of counts exactly when some processed observation was
\* assigned to a suburb with that name, every stored count is at least 1, an
\* observation in no suburb leaves counts unchanged, and Testville with
\* observations (5,5), (20,20), (1,1) ends with exactly {Testville: 2}.
C8_LazyKeys ==
    /\ [](/\ pc = "assign" => DOMAIN counts = AssignedNames
          /\ \A k \in DOMAIN counts : counts[k] >= 1
          /\ (/\ file = GeoFile(<<Testville>>)
              /\ obs = <<Units(<<5, 5>>), Units(<<20, 20>>), Units(<<1, 1>>)>>
              /\ idx = 3) => counts = ("Testville" :> 2))
    /\ [][(pc = "assign" /\ idx' = idx + 1 /\ Containing(obs[idx + 1]) = {})
             => counts' = counts]_vars

\* C8 witness: the Testville example after its three observations.
C8_Witness ==
    /\ file = GeoFile(<<Testville>>)
    /\ obs = <<Units(<<5, 5>>), Units(<<20, 20>>), Units(<<1, 1>>)>>
    /\ idx = 3
    /\ pc = "assign"
    /\ counts = ("Testville" :> 2)

MaxCount(c) ==
    IF DOMAIN c = {} THEN 0
    ELSE LET k == CHOOSE x \in DOMAIN c : \A y \in DOMAIN c : c[y] <= c[x]
         IN  c[k]

\* C9: once the top suburb is found, topCount is the maximum count of the
\* table, topSuburb is a key holding it, and topCount is 0 (the "no
\* observations" report) exactly when the table is empty.
C9_TopIsMaximum ==
    (pc = "report" \/ (pc = "done" /\ exitCode = 0)) =>
        /\ topCount = MaxCount(counts)
        /\ (DOMAIN counts # {} => (topSuburb \in DOMAIN counts /\ counts[topSuburb] = topCount))
        /\ (topCount = 0 <=> DOMAIN counts = {})

\* C9 witness: two names with different counts, the larger reported.
C9_Witness ==
    /\ pc = "report"
    /\ Cardinality(DOMAIN counts) = 2
    /\ \E k \in DOMAIN counts : counts[k] = 1
    /\ topCount = 2
    /\ counts[topSuburb] = 2

AreaFeature(feat) == feat.geometry = "object" /\ feat.type \in {"Polygon", "MultiPolygon"}

NoAreaFeature(f) == \A i \in 1..Len(f.features) : ~AreaFeature(f.features[i])

\* C10: loading fails (main exits with 2) when the file cannot be opened,
\* has no features array or has no Polygon/MultiPolygon feature; a load that
\* fails leaves no suburbs behind, and a load that returns leaves at least one.
C10_AllOrNothing ==
    /\ []((pc # "load" /\ (~file.readable \/ ~file.hasFeatures \/ NoAreaFeature(file)))
             => (pc = "done" /\ exitCode = 2 /\ suburbs = <<>>))
    /\ [][(pc = "load" /\ pc' # "load") =>
             \/ pc' = "fetch" /\ Len(suburbs') >= 1
             \/ pc' \in {"done", "crashed"} /\ suburbs' = <<>>]_vars

\* C10 witness: a file whose features are a Point and a feature without
\* geometry has been rejected.
C10_Witness ==
    /\ file = GeoFile(<<Station, NoGeometry>>)
    /\ pc = "done"
    /\ exitCode = 2
    /\ suburbs = <<>>

\* ------------------------------------------------------------------------
\* Suburb names: loading one Polygon feature with every property bag
\* ------------------------------------------------------------------------
NameKeys == {"", "NAME", "name", "LOCALITY", "suburb", "foo", "count"}

\* the string each key holds when it holds a string
NameValue ==
    [k \in NameKeys |->
        CASE k = "" -> "Blank"
          [] k = "NAME" -> "Central"
          [] k = "name" -> "Lower"
          [] k = "LOCALITY" -> "Locality"
          [] k = "suburb" -> "Sub"
          [] k = "foo" -> "Bar"
          [] k = "count" -> "Five"]

\* Every key absent, a string or a number (the bag without keys is also
\* what feat.value("properties", json::object()) yields without properties).
PropBags ==
    {[k \in {x \in NameKeys : a[x] # "absent"} |->
          IF a[k] = "string" THEN Str(NameValue[k]) ELSE [num |-> 5]] :
        a \in [NameKeys -> {"absent", "string", "number"}]}

NameFiles ==
    {GeoFile(<<Feature("object", "Polygon", <<RawSq(0, 10)>>, props)>>) : props \in PropBags}

InitNames == MainStarts(NameFiles)

NextNames == \E g \in Garbage : Load(g)

SpecNames == InitNames /\ [][NextNames]_vars

\* the properties of the only feature of the file
Props == file.features[1].properties

CandidateHits == {i \in 1..Len(candidates) : HasString(Props, candidates[i])}

IterationHits == {i \in 1..Len(KeyOrder) : HasString(Props, KeyOrder[i])}

\* C11: if some candidate key is present with a string value, the suburb's
\* name is the value of the earliest such key in the candidates' order,
\* whatever else the properties hold.
C11_NamePriority ==
    (pc = "fetch" /\ CandidateHits # {})
        => suburbs[1].name = Props[candidates[Lowest(CandidateHits)]].str

\* C11 witness: {foo: 'Bar', NAME: 'Central'} was loaded as Central.
C11_Witness ==
    /\ pc = "fetch"
    /\ Props = [foo |-> Str("Bar"), NAME |-> Str("Central")]
    /\ suburbs[1].name = "Central"

\* C12: if no candidate key is present with a string value, the suburb's
\* name is the value of the first string-valued property in iteration
\* order, and UNKNOWN when no property holds a string.
C12_NameFallback ==
    (pc = "fetch" /\ CandidateHits = {})
        => suburbs[1].name =
              IF IterationHits = {} THEN "UNKNOWN"
              ELSE Props[KeyOrder[Lowest(IterationHits)]].str

\* ------------------------------------------------------------------------
\* What the loader stores, against the file it read
\* ------------------------------------------------------------------------
\* the features that become suburbs, in file order
AreaFeatures == SelectSeq(file.features, AreaFeature)

\* the source polygons of area feature i: coordinates, or its elements
SourcePolys(i) ==
    IF AreaFeatures[i].type = "Polygon" THEN <<AreaFeatures[i].coordinates>>
    ELSE AreaFeatures[i].coordinates

\* (suburb, polygon, ring) of every stored ring
StoredRings ==
    {<<i, j, r>> \in (1..Len(suburbs)) \X (1..2) \X (1..3) :
        j <= Len(suburbs[i].polys) /\ r <= Len(suburbs[i].polys[j].rings)}

SamePosition(a, b) == a[1] = b[1] /\ a[2] = b[2]

\* C13: after loading, every stored ring with points has equal first and
\* last points; a source ring whose last position equals its first is stored
\* with as many points, an open source ring with one more, equal to its first.
C13_RingClosure ==
    pc = "fetch" =>
        \A t \in StoredRings :
            LET stored == suburbs[t[1]].polys[t[2]].rings[t[3]]
                src == SourcePolys(t[1])[t[2]][t[3]]
            IN  /\ stored # <<>> => stored[1] = stored[Len(stored)]
                /\ src = <<>> => stored = <<>>
                /\ (src # <<>> /\ SamePosition(src[1], src[Len(src)]))
                      => Len(stored) = Len(src)
                /\ (src # <<>> /\ ~SamePosition(src[1], src[Len(src)]))
                      => (/\ Len(stored) = Len(src) + 1
                          /\ stored[Len(stored)] = Point(src[1][1], src[1][2]))

\* C13 witness: an open 4-position square and a closed 5-position square
\* are both stored with 5 points.
C13_Witness ==
    /\ pc = "fetch"
    /\ file.features = <<Testville, Ringed>>
    /\ Len(suburbs[1].polys[1].rings[1]) = 5
    /\ Len(suburbs[2].polys[1].rings[1]) = 5
    /\ Len(suburbs[2].polys[1].rings[2]) = 1

BoxOf(x) == Box(x.minLon, x.minLat, x.maxLon, x.maxLat)

\* box a lies within box b
Within(a, b) ==
    /\ b.minLon <= a.minLon /\ a.maxLon <= b.maxLon
    /\ b.minLat <= a.minLat /\ a.maxLat <= b.maxLat

\* coordinate-wise union of the boxes of the elements of a sequence
RECURSIVE UnionOf(_, _)
UnionOf(boxes, i) ==
    IF i > Len(boxes) THEN EmptyBox ELSE BoxUnion(boxes[i], UnionOf(boxes, i + 1))

PointBox(p) == Box(p.lon, p.lat, p.lon, p.lat)

RingBox(ring_) == UnionOf([i \in 1..Len(ring_) |-> PointBox(ring_[i])], 1)

\* C14: after a successful load every vertex lies within its polygon's
\* box, every polygon's box within its suburb's, every suburb's within the
\* global box, and each box is the union of the boxes one level below.
C14_BoxesNested ==
    pc = "fetch" =>
        /\ \A i \in 1..Len(suburbs) :
              /\ \A j \in 1..Len(suburbs[i].polys) :
                    LET p == suburbs[i].polys[j]
                    IN  /\ \A r \in 1..Len(p.rings) : \A v \in 1..Len(p.rings[r]) :
                              InBox(p, p.rings[r][v])
                        /\ BoxOf(p) = UnionOf([r \in 1..Len(p.rings) |-> RingBox(p.rings[r])], 1)
                        /\ Within(BoxOf(p), BoxOf(suburbs[i]))
              /\ BoxOf(suburbs[i]) =
                    UnionOf([j \in 1..Len(suburbs[i].polys) |-> BoxOf(suburbs[i].polys[j])], 1)
              /\ Within(BoxOf(suburbs[i]), box)
        /\ box = UnionOf([i \in 1..Len(suburbs) |-> BoxOf(suburbs[i])], 1)

\* C14 restricted to files without a polygon without rings (not a claim's
\* formula: it shows what the violation of C14 depends on).
NoHollowPolygon ==
    \A i \in 1..Len(suburbs) : \A j \in 1..Len(suburbs[i].polys) :
        suburbs[i].polys[j].rings # <<>>

BoxesNestedUnlessHollow == NoHollowPolygon => C14_BoxesNested

\* ------------------------------------------------------------------------
\* ringBounds on its own
\* ------------------------------------------------------------------------
\* The rings of the unit tests of ringBounds (src/unnamed/part_005); 2.5 is
\* 5/2.
TestBoundsRings ==
    {<<Point(Quanta, 2 * Quanta), Point(3 * Quanta, -Quanta),
       Point((5 * Quanta) \div 2, 4 * Quanta)>>,
     UnitRing(<< <<-10, -20>>, <<-5, -25>>, <<-7, -22>> >>),
     UnitRing(<< <<42, -17>> >>),
     UnitRing(<< <<5, 5>>, <<5, 5>>, <<5, 5>> >>),
     <<>>}

BoundsPts == {Point(-Quanta, 0), Point(0, Quanta), Point(2 * Quanta, -Quanta), Point(1, 1)}

\* Longitudes and latitudes, all far inside the sentinels -1e300 and 1e300.
BoundsRings == TestBoundsRings \cup SeqsUpTo(BoundsPts, 3)

InitBounds ==
    /\ ring \in BoundsRings
    /\ poly = NoPolygon
    /\ point = Origin
    /\ called = "none"
    /\ result = FALSE
    /\ MainNotStarted
    /\ HarnessIdle
    /\ FetchNotStarted

CallRingBounds ==
    /\ called = "none"
    /\ bounds' = ringBounds(ring)
    /\ called' = "ringBounds"
    /\ UNCHANGED <<ring, poly, point, result, suburb, mainVars, fetchVars>>

NextBounds == CallRingBounds

SpecBounds == InitBounds /\ [][NextBounds]_vars

Least(S) == CHOOSE x \in S : \A y \in S : x <= y

Greatest(S) == CHOOSE x \in S : \A y \in S : y <= x

Lons(ring_) == {ring_[i].lon : i \in 1..Len(ring_)}

Lats(ring_) == {ring_[i].lat : i \in 1..Len(ring_)}

\* C15: ringBounds yields the least and greatest longitude and latitude of
\* the ring's points (min = max = the point when all points are the same);
\* for a ring without points it yields min = 1e300, max = -1e300, and the
\* union of that box with the bounds of a ring with points is those bounds.
C15_RingBoundsMinMax ==
    called = "ringBounds" =>
        /\ ring # <<>> =>
              /\ bounds = Box(Least(Lons(ring)), Least(Lats(ring)),
                              Greatest(Lons(ring)), Greatest(Lats(ring)))
              /\ (\A i \in 1..Len(ring) : ring[i] = ring[1])
                    => bounds = Box(ring[1].lon, ring[1].lat, ring[1].lon, ring[1].lat)
              /\ BoxUnion(ringBounds(<<>>), bounds) = bounds
              /\ BoxUnion(bounds, ringBounds(<<>>)) = bounds
        /\ ring = <<>> => bounds = Box(Sentinel, Sentinel, -Sentinel, -Sentinel)

\* C15 witness: the bounds of the test ring with negative coordinates.
C15_Witness ==
    /\ called = "ringBounds"
    /\ ring = UnitRing(<< <<-10, -20>>, <<-5, -25>>, <<-7, -22>> >>)
    /\ bounds = Box(-10 * Quanta, -25 * Quanta, -5 * Quanta, -20 * Quanta)

\* ------------------------------------------------------------------------
\* pointInSuburb on suburbs with hand-set bounding boxes (as the unit tests
\* build them)
\* ------------------------------------------------------------------------
SqPolygon(lo, hi) == Polygon(<<Sq(lo, hi)>>, lo * Quanta, lo * Quanta, hi * Quanta, hi * Quanta)

\* The polygons of the unit tests of pointInSuburb, and a polygon that
\* reaches beyond the suburb boxes below.
SuburbPolygons ==
    {SqPolygon(0, 10), SqPolygon(2, 8), SqPolygon(10, 20), SqPolygon(0, 20),
     Polygon(<<Sq(0, 10), Sq(3, 7)>>, 0, 0, 10 * Quanta, 10 * Quanta)}

SuburbInputs ==
    {[name |-> "Testville", polys |-> ps,
      minLon |-> 0, minLat |-> 0, maxLon |-> hi * Quanta, maxLat |-> hi * Quanta] :
        ps \in SeqsUpTo(SuburbPolygons, 2), hi \in {10, 20}}

SuburbQueryPts ==
    {Units(<<5, 5>>), Units(<<20, 20>>), Units(<<-5, 5>>), Units(<<5, -5>>),
     Units(<<1, 1>>), Units(<<9, 9>>), Units(<<15, 15>>), Units(<<30, 30>>),
     Point(1, 5 * Quanta), Point(5 * Quanta, 1),
     Point(10 * Quanta + 1, 5 * Quanta), Point(5 * Quanta, 10 * Quanta + 2),
     Point(20 * Quanta + 1, 15 * Quanta)}

InitSuburb ==
    /\ suburb \in SuburbInputs
    /\ bounds = EmptyBox
    /\ ring = <<>>
    /\ poly = NoPolygon
    /\ point = Origin
    /\ called = "none"
    /\ result = FALSE
    /\ MainNotStarted
    /\ FetchNotStarted

CallPointInSuburb(q) ==
    /\ called = "none"
    /\ point' = q
    /\ result' = pointInSuburb(suburb, q)
    /\ called' = "pointInSuburb"
    /\ UNCHANGED <<ring, poly, suburb, bounds, mainVars, fetchVars>>

NextSuburb == \E q \in SuburbQueryPts : CallPointInSuburb(q)

SpecSuburb == InitSuburb /\ [][NextSuburb]_vars

\* C16: pointInSuburb(R, X) is true exactly when X lies within R's cached
\* box and pointInPolygon(P, X) is true for some polygon P of R (never for a
\* suburb without polygons).
C16_BoxAndAnyPolygon ==
    called = "pointInSuburb" =>
        (result = (/\ InBox(suburb, point)
                   /\ \E j \in 1..Len(suburb.polys) : pointInPolygon(suburb.polys[j], point)))

\* ------------------------------------------------------------------------
\* observations.cpp: httpGet and fetchINatPoints against any HTTP client
\* ------------------------------------------------------------------------
MaxRequests == 101

\* an element of the results array
Item(k, c) == [kind |-> k, coords |-> c]

ItemA == Item("point", <<5 * Quanta, 5 * Quanta>>)

ItemB == Item("point", <<Quanta, 2 * Quanta>>)

\* no geojson key
ItemNoGeo == Item("nogeojson", <<>>)

\* geojson.coordinates holds two strings
ItemStrings == Item("strings", <<0, 0>>)

\* geojson.coordinates holds three numbers
ItemThree == Item("point", <<Quanta, Quanta, Quanta>>)

\* a body that is not JSON
TextBody ==
    [kind |-> "text", hasTotal |-> FALSE, totalIsNumber |-> FALSE, total |-> 0,
     hasResults |-> FALSE, results |-> <<>>]

\* a JSON object without total_results, with the results array rs
JsonResults(rs) ==
    [kind |-> "json", hasTotal |-> FALSE, totalIsNumber |-> FALSE, total |-> 0,
     hasResults |-> TRUE, results |-> rs]

\* a JSON object with total_results t and the results array rs
JsonPage(t, rs) ==
    [kind |-> "json", hasTotal |-> TRUE, totalIsNumber |-> TRUE, total |-> t,
     hasResults |-> TRUE, results |-> rs]

Bodies ==
    {EmptyBody, TextBody,
     [kind |-> "json", hasTotal |-> FALSE, totalIsNumber |-> FALSE, total |-> 0,
      hasResults |-> FALSE, results |-> <<>>],
     [kind |-> "json", hasTotal |-> TRUE, totalIsNumber |-> FALSE, total |-> 0,
      hasResults |-> TRUE, results |-> <<ItemA>>],
     JsonResults(<<ItemA>>),
     JsonPage(3, <<>>), JsonPage(3, <<ItemA>>), JsonPage(3, <<ItemA, ItemB>>),
     JsonPage(3, <<ItemNoGeo>>), JsonPage(3, <<ItemB, ItemNoGeo>>),
     JsonPage(3, <<ItemA, ItemStrings>>),
     JsonPage(2, <<ItemA, ItemB>>), JsonPage(3, <<ItemThree, ItemB>>)}

Response(st, b) == [threw |-> FALSE, status |-> st, body |-> b]

\* client.get throws; answers outside [200, 300); answers inside.
Responses ==
    {[threw |-> TRUE, status |-> 0, body |-> EmptyBody]}
        \cup {Response(st, b) : st \in {199, 300, 500}, b \in {TextBody, JsonPage(3, <<ItemA>>)}}
        \cup {Response(st, b) : st \in {200, 299}, b \in Bodies}

\* httpGet with the exception of client.get passed on
httpGetNoCatch(r) ==
    IF r.threw THEN [threw |-> TRUE, body |-> EmptyBody]
    ELSE IF r.status < 200 \/ r.status >= 300 THEN [threw |-> FALSE, body |-> EmptyBody]
    ELSE [threw |-> FALSE, body |-> r.body]

httpGet(r) ==
    IF r.threw THEN [threw |-> FALSE, body |-> EmptyBody]
    ELSE IF r.status < 200 \/ r.status >= 300 THEN [threw |-> FALSE, body |-> EmptyBody]
    ELSE [threw |-> FALSE, body |-> r.body]

\* the loop with coordinates[0] read as the latitude
RECURSIVE ExtractFromLatLon(_, _, _)
ExtractFromLatLon(items, i, acc) ==
    IF i > Len(items) \/ acc.threw THEN acc
    ELSE LET item == items[i]
         IN  IF item.kind \in {"nogeojson", "nocoordinates", "notarray"} \/ Len(item.coords) # 2
             THEN ExtractFromLatLon(items, i + 1, acc)
             ELSE IF item.kind = "strings"
             THEN [acc EXCEPT !.threw = TRUE]
             ELSE ExtractFromLatLon(items, i + 1,
                      [acc EXCEPT !.points = Append(@, Point(item.coords[2], item.coords[1]))])

\* The loop over j["results"] from item i on: the points appended, or the
\* exception of get<double>() on a coordinate that is not a number.
RECURSIVE ExtractFrom(_, _, _)
ExtractFrom(items, i, acc) ==
    IF i > Len(items) \/ acc.threw THEN acc
    ELSE LET item == items[i]
         IN  IF item.kind \in {"nogeojson", "nocoordinates", "notarray"} \/ Len(item.coords) # 2
             THEN ExtractFrom(items, i + 1, acc)
             ELSE IF item.kind = "strings"
             THEN [acc EXCEPT !.threw = TRUE]
             ELSE ExtractFrom(items, i + 1,
                      [acc EXCEPT !.points = Append(@, Point(item.coords[1], item.coords[2]))])

\* an exception where the loop breaks
ThrowOnFailure(st) == [st EXCEPT !.fpc = "threw"]

\* break out of while (true): return out
BreakOnFailure(st) == [st EXCEPT !.fpc = "returned"]

\* the step to the next page without the politeness delay
NextPageNoSleep(st, points) == [st EXCEPT !.out = points, !.page = @ + 1]

\* ++page; sleep_for(milliseconds(1100))
NextPage(st, points) == [st EXCEPT !.out = points, !.page = @ + 1, !.sleeps = @ + 1]

\* One iteration of while (true) after httpGet returned b.
LoopBody(st, b) ==
    IF b.kind = "empty" THEN BreakOnFailure(st)
    ELSE IF b.kind = "text" THEN BreakOnFailure(st)
    ELSE IF st.total_results < 0 /\ b.hasTotal /\ ~b.totalIsNumber
    THEN [st EXCEPT !.fpc = "threw"]
    ELSE LET tr == IF st.total_results < 0 /\ b.hasTotal THEN b.total ELSE st.total_results
             st1 == [st EXCEPT !.total_results = tr]
         IN  IF ~b.hasResults THEN [st1 EXCEPT !.fpc = "returned"]
             ELSE LET x == ExtractFrom(b.results, 1, [threw |-> FALSE, points |-> st.out])
                  IN  IF x.threw THEN [st1 EXCEPT !.fpc = "threw"]
                      ELSE IF Len(x.points) >= tr
                      THEN [st1 EXCEPT !.out = x.points, !.fpc = "returned"]
                      ELSE NextPage(st1, x.points)

\* fetchINatPoints has been entered: out empty, page = 1, total_results = -1.
InitFetch ==
    /\ fpc = "loop"
    /\ page = 1
    /\ total_results = -1
    /\ out = <<>>
    /\ resp = NoResponse
    /\ got = [threw |-> FALSE, body |-> EmptyBody]
    /\ requests = 0
    /\ sleeps = 0
    /\ ring = <<>>
    /\ poly = NoPolygon
    /\ point = Origin
    /\ called = "none"
    /\ result = FALSE
    /\ MainNotStarted
    /\ HarnessIdle

\* One iteration of while (true): the request of the page, to which the
\* client does r, and everything up to the politeness delay.
FetchPage(r) ==
    /\ fpc = "loop"
    /\ requests < MaxRequests
    /\ resp' = r
    /\ requests' = requests + 1
    /\ got' = httpGet(r)
    /\ LET st == [fpc |-> fpc, page |-> page, total_results |-> total_results,
                  out |-> out, sleeps |-> sleeps]
           nxt == IF httpGet(r).threw THEN [st EXCEPT !.fpc = "threw"]
                  ELSE LoopBody(st, httpGet(r).body)
       IN  /\ fpc' = nxt.fpc
           /\ page' = nxt.page
           /\ total_results' = nxt.total_results
           /\ out' = nxt.out
           /\ sleeps' = nxt.sleeps
    /\ UNCHANGED <<geomVars, mainVars, harnessVars>>

NextFetch == \E r \in Responses : FetchPage(r)

SpecFetch == InitFetch /\ [][NextFetch]_vars

\* the page cap of the earlier fetchINatPoints
PageLimit == 100

\* C17: whatever the server does, fetchINatPoints issues at most 100 page
\* requests.
C17_AtMostHundredRequests == requests <= PageLimit

\* the request failed: transport error, status outside 2xx or empty body
PageFailed(r) == r.threw \/ r.status < 200 \/ r.status >= 300 \/ r.body.kind = "empty"

\* C18: when the request of a page fails, fetchINatPoints does not return
\* (the points of the pages before): it fails.
C18_FailureAborts == (requests >= 1 /\ PageFailed(resp)) => fpc = "threw"

C20_HttpGetNeverThrows ==
    requests >= 1 =>
        /\ ~got.threw
        /\ got.body = IF ~resp.threw /\ 200 <= resp.status /\ resp.status < 300
                      THEN resp.body ELSE EmptyBody

\* C20 witness: the client threw and httpGet returned the empty string.
C20_Witness ==
    /\ requests = 2
    /\ resp.threw
    /\ ~got.threw
    /\ got.body = EmptyBody

\* ------------------------------------------------------------------------
\* Point extraction from one page (C21)
\* ------------------------------------------------------------------------
\* the item has a geojson.coordinates array of two elements
HasCoordinatePair(item) ==
    item.kind \in {"point", "strings"} /\ Len(item.coords) = 2

\* the items of a results array that have such a pair, in array order
PairItems(items) == SelectSeq(items, HasCoordinatePair)

\* (coordinates[0], coordinates[1]) of each of them
PagePoints(items) ==
    [k \in 1..Len(PairItems(items)) |->
        Point(PairItems(items)[k].coords[1], PairItems(items)[k].coords[2])]

\* every coordinate pair of the array holds numbers
NumericPairs(items) ==
    \A k \in 1..Len(items) : HasCoordinatePair(items[k]) => items[k].kind = "point"

\* The request just answered was answered with a 2xx status and a JSON
\* object that has a results array (and a total_results that is a number,
\* where it has one).
PageParsed ==
    /\ requests' = requests + 1
    /\ ~resp'.threw
    /\ 200 <= resp'.status /\ resp'.status < 300
    /\ resp'.body.kind = "json"
    /\ resp'.body.hasResults
    /\ (resp'.body.hasTotal => resp'.body.totalIsNumber)

\* what C21 says of the page just parsed
PageExtracted ==
    /\ fpc' # "threw"
    /\ out' = out \o PagePoints(resp'.body.results)
    /\ (/\ requests' = 1
        /\ resp'.body.hasTotal
        /\ resp'.body.total = Len(PagePoints(resp'.body.results)))
            => (fpc' = "returned" /\ out' = PagePoints(resp'.body.results))

C21_SkipWitness ==
    /\ requests = 1
    /\ resp = Response(200, JsonPage(3, <<ItemThree, ItemB>>))
    /\ out = <<Point(Quanta, 2 * Quanta)>>
    /\ fpc = "loop"

\* ------------------------------------------------------------------------
\* main from its arguments to its exit code: the order of the stages
\* ------------------------------------------------------------------------
\* The rectangle (0,0)-(20,10): its box tells longitude from latitude.
Wide ==
    Feature("object", "Polygon",
            << << <<0, 0>>, <<20 * Quanta, 0>>, <<20 * Quanta, 10 * Quanta>>,
                  <<0, 10 * Quanta>> >> >>,
            [NAME |-> Str("Wide")])

RunFeatures == {Testville, Wide, Inner, Multi, Station, Hollow, Broken}

RunFiles ==
    {NoFile,
     [readable |-> TRUE, json |-> FALSE, hasFeatures |-> FALSE, features |-> <<>>],
     [readable |-> TRUE, json |-> TRUE, hasFeatures |-> FALSE, features |-> <<>>]}
        \cup {GeoFile(fs) : fs \in SeqsUpTo(RunFeatures, MaxFeatures)}

\* what the fetch may return to main
RunObs ==
    {<<>>, <<Units(<<5, 5>>)>>, <<Units(<<15, 5>>), Units(<<5, 5>>)>>,
     <<Units(<<30, 30>>)>>, <<Units(<<1, 1>>), Units(<<5, 5>>), Units(<<20, 20>>)>>}

InitRun == MainStartsWith(RunFiles, {"none", "opens", "fails"})

NextRun ==
    \/ \E g \in Garbage : Load(g)
    \/ FetchCall
    \/ \E o \in RunObs : FetchReturns(o)
    \/ FetchThrows
    \/ Assign
    \/ \E o \in Orders(DOMAIN counts) : Top(o)
    \/ Report

SpecRun == InitRun /\ [][NextRun]_vars

\* loadSuburbsGeoJSON returns on the file (for some outcome of what is
\* undefined in it) with these suburbs and this box
LoadReturned(sb, bx) ==
    \E g \in Garbage :
        /\ loadSuburbsGeoJSON(file, g).status = "ok"
        /\ loadSuburbsGeoJSON(file, g).suburbs = sb
        /\ loadSuburbsGeoJSON(file, g).box = bx

\* nothing of the later stages has happened
NothingAfterLoad ==
    /\ ~query.called
    /\ fpc = "idle" /\ requests = 0
    /\ obs = <<>> /\ idx = 0 /\ counts = EmptyCounts /\ assigned = 0
    /\ ~csv.written

\* C22: the fetch is called only once ingestion has returned, with
\* swlat = minLat, swlng = minLon, nelat = maxLat, nelng = maxLon of the box
\* ingestion produced; assignment starts only once the fetch has returned;
\* when ingestion fails there is no fetch, no count and no CSV, main does
\* not return 0, and nothing happens afterwards.
C22_StagesInOrder ==
    /\ [][(pc = "load" /\ pc' # "load") =>
             \/ pc' = "fetch" /\ LoadReturned(suburbs', box') /\ NothingAfterLoad'
             \/ pc' = "done" /\ exitCode' = 2 /\ NothingAfterLoad'
             \/ pc' = "crashed" /\ exitCode' = -1 /\ NothingAfterLoad']_vars
    /\ [][(~query.called /\ query'.called) =>
             /\ pc = "fetch" /\ LoadReturned(suburbs, box)
             /\ query'.swlat = box.minLat /\ query'.swlng = box.minLon
             /\ query'.nelat = box.maxLat /\ query'.nelng = box.maxLon]_vars
    /\ [][(idx' # idx \/ counts' # counts \/ assigned' # assigned) =>
             (pc = "assign" /\ query.called)]_vars
    /\ [][(pc # "assign" /\ pc' = "assign") => (pc = "fetching" /\ idx' = 0)]_vars
    /\ [][csv' # csv => (pc = "report" /\ query.called)]_vars
    /\ []((pc \in {"done", "crashed"} /\ ~query.called) =>
             (NothingAfterLoad /\ exitCode # 0))
    /\ [][pc \notin {"done", "crashed"}]_vars

\* C22 witness: run with --out on a file whose second feature is malformed,
\* main has returned 2 without a fetch, a count or a CSV.
C22_Witness ==
    /\ file = GeoFile(<<Testville, Broken>>)
    /\ outCsv = "opens"
    /\ pc = "done"
    /\ exitCode = 2
    /\ NothingAfterLoad

\* C22 witness of a whole run: the box of Wide went to the fetch as
\* (0, 0, 10, 20) and the CSV was written last.
C22_RunWitness ==
    /\ file = GeoFile(<<Wide>>)
    /\ query = [called |-> TRUE, swlat |-> 0, swlng |-> 0,
                nelat |-> 10 * Quanta, nelng |-> 20 * Quanta]
    /\ csv.written
    /\ exitCode = 0

\* ------------------------------------------------------------------------
\* Which features become suburbs, and with how many polygons
\* ------------------------------------------------------------------------
\* "type": "MultiPolygon", "coordinates": []
Void == Feature("object", "MultiPolygon", <<>>, [NAME |-> Str("Void")])

\* a geometry object without "type"
Untyped == Feature("object", "", <<RawSq(0, 10)>>, [NAME |-> Str("Untyped")])

AreaCatalogue ==
    {Testville, Holed, Multi, Void, Station, Untyped, NoGeometry, NullGeometry, Hollow,
     Broken}

AreaFiles ==
    {NoFile,
     [readable |-> TRUE, json |-> TRUE, hasFeatures |-> FALSE, features |-> <<>>]}
        \cup {GeoFile(fs) : fs \in SeqsUpTo(AreaCatalogue, MaxFeatures)}

InitAreas == MainStarts(AreaFiles)

NextAreas == \E g \in Garbage : Load(g)

SpecAreas == InitAreas /\ [][NextAreas]_vars

\* the name the catalogue gives the feature
NameOf(feat) ==
    IF "NAME" \in DOMAIN feat.properties THEN feat.properties["NAME"].str
    ELSE feat.properties["name"].str

\* every polygon of the feature has a ring and every position two numbers
WellFormed(feat) ==
    LET polys == IF feat.type = "Polygon" THEN <<feat.coordinates>> ELSE feat.coordinates
    IN  \A j \in 1..Len(polys) :
            /\ polys[j] # <<>>
            /\ \A r \in 1..Len(polys[j]) : \A k \in 1..Len(polys[j][r]) :
                   Len(polys[j][r][k]) >= 2

\* C23: the loader returns one suburb per Polygon/MultiPolygon feature, in
\* file order, under the feature's name; a Polygon gives its suburb one
\* polygon and a MultiPolygon one polygon per element of its coordinates,
\* each with the rings of its source; features without geometry, with null
\* geometry or of another type are skipped and make no load fail.
C23_OnlyAreaFeatures ==
    /\ pc = "fetch" =>
          /\ Len(suburbs) = Len(AreaFeatures)
          /\ \A i \in 1..Len(suburbs) :
                /\ suburbs[i].name = NameOf(AreaFeatures[i])
                /\ Len(suburbs[i].polys) = Len(SourcePolys(i))
                /\ AreaFeatures[i].type = "Polygon" => Len(suburbs[i].polys) = 1
                /\ \A j \in 1..Len(suburbs[i].polys) :
                      Len(suburbs[i].polys[j].rings) = Len(SourcePolys(i)[j])
    /\ (/\ pc # "load"
        /\ file.readable /\ file.json /\ file.hasFeatures
        /\ AreaFeatures # <<>>
        /\ \A i \in 1..Len(AreaFeatures) : WellFormed(AreaFeatures[i]))
            => pc = "fetch"

\* C23 witness: the Point before a two-element MultiPolygon was skipped:
\* one suburb, of two polygons.
C23_Witness ==
    /\ pc = "fetch"
    /\ file.features = <<Station, Multi>>
    /\ Len(suburbs) = 1
    /\ suburbs[1].name = "Inner"
    /\ Len(suburbs[1].polys) = 2

\* ------------------------------------------------------------------------
\* Pacing of the page requests (C26)
\* ------------------------------------------------------------------------
\* C26: request number k of a fetch asks for page k (the URL is built from
\* page before the request): pages go up from 1 one by one and none is asked
\* for twice; k - 1 politeness delays have been slept before request k, one
\* after each request before it, and nothing else changes page or sleeps.
C26_PacedPages ==
    /\ [][requests' # requests =>
             /\ requests' = requests + 1
             /\ page = requests + 1
             /\ sleeps = requests
             /\ \/ fpc' = "loop" /\ page' = page + 1 /\ sleeps' = sleeps + 1
                \/ fpc' # "loop" /\ page' = page /\ sleeps' = sleeps]_vars
    /\ [][(page' # page \/ sleeps' # sleeps) => requests' = requests + 1]_vars

\* C26 witness: page 3 was the third page asked for, after two delays, and
\* a fourth request is to follow the third delay.
C26_Witness ==
    /\ requests = 3
    /\ page = 4
    /\ sleeps = 3
    /\ fpc = "loop"

\* ------------------------------------------------------------------------
\* The top suburb among equal counts (C27)
\* ------------------------------------------------------------------------
\* the positions of the scan that hold the greatest count
TopPositions == {i \in 1..Len(scan) : \A j \in 1..Len(scan) : counts[scan[j]] <= counts[scan[i]]}

\* C27: once the counts have been scanned, the top suburb is the entry with
\* the greatest count that the scan met first: entries met later with the
\* same count have not replaced it.
C27_FirstOfTies ==
    (pc \in {"report", "done"} /\ DOMAIN counts # {}) =>
        /\ Len(scan) = Cardinality(DOMAIN counts)
        /\ {scan[i] : i \in 1..Len(scan)} = DOMAIN counts
        /\ TopPositions # {}
        /\ \A i \in TopPositions :
              (\A j \in TopPositions : i <= j) =>
                  (topSuburb = scan[i] /\ topCount = counts[scan[i]])

\* C27 witness: Wide and Testville hold one sighting each, the scan met
\* Wide first, and Wide is reported.
C27_Witness ==
    /\ pc = "done"
    /\ counts = [k \in {"Wide", "Testville"} |-> 1]
    /\ scan = <<"Wide", "Testville">>
    /\ topSuburb = "Wide"
    /\ topCount = 1

\* ------------------------------------------------------------------------
\* One count per name (C29)
\* ------------------------------------------------------------------------
SuburbNames == {suburbs[i].name : i \in 1..Len(suburbs)}

\* the observations whose first containing suburb bears the name
CountedUnder(name) ==
    {k \in 1..Len(obs) :
        /\ Containing(obs[k]) # {}
        /\ suburbs[Lowest(Containing(obs[k]))].name = name}

\* C29: when all observations have been processed, the count under a name
\* is the number of observations whose first containing suburb bears that
\* name, whichever of the suburbs of that name it is; the keys of counts are
\* names of suburbs, so there are at most as many keys as distinct names.
C29_OneEntryPerName ==
    idx = Len(obs) =>
        /\ \A name \in SuburbNames :
              CountOf(counts, name) = Cardinality(CountedUnder(name))
        /\ DOMAIN counts \subseteq SuburbNames
        /\ Cardinality(DOMAIN counts) <= Cardinality(SuburbNames)

\* C29 witness: two suburbs named Inner; the first contains (1,1), the
\* second (5,5) and (20,20); the one entry Inner holds 3.
C29_Witness ==
    /\ pc = "done"
    /\ file = GeoFile(<<Inner, Multi>>)
    /\ Len(suburbs) = 2
    /\ obs = <<Units(<<1, 1>>), Units(<<5, 5>>), Units(<<20, 20>>)>>
    /\ Containing(obs[1]) = {1}
    /\ Containing(obs[2]) = {2}
    /\ Containing(obs[3]) = {2}
    /\ counts = [k \in {"Inner"} |-> 3]

\* ------------------------------------------------------------------------
\* Polygons without rings, suburbs without polygons (C30)
\* ------------------------------------------------------------------------
\* C30: the loader never applies ringBounds to the first ring of a polygon
\* that has none (the read the process can die of), and every suburb it
\* returns has at least one polygon, each with at least one ring.
C30_NoHollowRegion ==
    /\ pc # "crashed"
    /\ pc = "fetch" =>
          \A i \in 1..Len(suburbs) :
              /\ suburbs[i].polys # <<>>
              /\ \A j \in 1..Len(suburbs[i].polys) : suburbs[i].polys[j].rings # <<>>

\* ------------------------------------------------------------------------
\* pointInRing on every ring of a few grid points, given whole
\* ------------------------------------------------------------------------
MaxEdgeRingLen == 3

\* every sequence of grid points up to that length (points may repeat), and
\* the rings of the unit tests
EdgeRings == SeqsUpTo(GridPts, MaxEdgeRingLen) \cup TestRings

InitEdges ==
    /\ ring \in EdgeRings
    /\ poly = NoPolygon
    /\ point = Origin
    /\ called = "none"
    /\ result = FALSE
    /\ MainNotStarted
    /\ HarnessIdle
    /\ FetchNotStarted

NextEdges == \E q \in QueryPts : CallPointInRing(q)

SpecEdges == InitEdges /\ [][NextEdges]_vars

====
